---- MODULE Spec2Model ----
(***************************************************************************)
(* The Qt driver of TagStudio (src/tagstudio/src/qt/ts_qt.py): the         *)
(* thumbnail job queue with its Consumer worker threads, and the grid /    *)
(* pagination / selection state kept by QtDriver.                          *)
(*                                                                         *)
(* Grid indices are 0-based as in the source; frame_content is a TLA+      *)
(* sequence, so the entry of grid index i is frame_content[i + 1].         *)
(***************************************************************************)
EXTENDS Integers, Sequences, FiniteSets, TLC

\* ------------------------------------------------------------------ bounds

\* Number of ItemThumb widgets _init_thumb_grid creates: the page_size of the
\* initial FilterState.show_all() (500 in the library module, scaled down).
NumSlots == 3

\* Largest number of entries the library holds.
MaxEntries == 4

\* Number of Consumer threads init_workers starts (os.cpu_count()).
NumWorkers == 2

\* Largest number of update_thumbs calls in one behaviour of the queue
\* specification (caps the job ids of its history).
MaxRefresh == 2

\* Largest reading of time.time().
MaxClock == 1

\* Largest number of entries of a library in the queue specification.
QueueEntries == 1

\* Largest number of render calls that raise in one behaviour.
MaxRaise == 2

\* ----------------------------------------------------------------- helpers

None == 0

Min(S) == CHOOSE x \in S : \A y \in S : x <= y

Max(S) == CHOOSE x \in S : \A y \in S : y <= x

\* The set of elements of a list.
Elems(s) == {s[i] : i \in 1..Len(s)}

\* list(range(a, b)): a, a+1, ..., b-1.
Range(a, b) == [i \in 1..(IF b > a THEN b - a ELSE 0) |-> a + i - 1]

\* math.ceil(a / b) for a >= 0, b > 0.
Ceil(a, b) == (a + b - 1) \div b

\* list.remove(x): the list without its first occurrence of x.
ListRemove(s, x) ==
    LET k == Min({i \in 1..Len(s) : s[i] = x})
    IN  [i \in 1..(Len(s) - 1) |-> IF i < k THEN s[i] ELSE s[i + 1]]

\* The increasing list of the members of a finite set of integers.
RECURSIVE Sorted(_)
Sorted(S) == IF S = {} THEN <<>> ELSE <<Min(S)>> \o Sorted(S \ {Min(S)})

Slots == 0..(NumSlots - 1)

\* The page sizes a library's LibraryPrefs.PAGE_SIZE can hold.
LibPageSizes == {1, NumSlots + 1}

Queries == {"all", "odd"}

\* ------------------------------------------------------------------- state

VARIABLES
    lib_open,         \* self.lib.library_dir is set (a library is open)
    lib_count,        \* number of entries of the open library (ids 1..lib_count)
    lib_page_size,    \* self.lib.prefs(LibraryPrefs.PAGE_SIZE)
    filter,           \* self.filter: query, page_index, page_size
    pages_count,      \* self.pages_count
    frame_content,    \* self.frame_content: entry ids, None for a removed item
    selected,         \* self.selected: list of grid indices
    item_thumbs,      \* self.item_thumbs: one record per grid slot
    thumb_job_queue,  \* self.thumb_job_queue: FIFO of jobs and MARKER_QUIT
    thumb_threads,    \* number of Consumer threads in self.thumb_threads
    update_cutoff,    \* ItemThumb.update_cutoff
    now,              \* the reading of time.time()
    tracing,          \* the history variables are kept (queue specification)
    gen,              \* history: number of update_thumbs calls so far
    wstate,           \* per Consumer: "none", "idle", "running", "done", "dead"
    wjob,             \* per Consumer: the job it is running
    ctl,              \* where the control thread is
    shutdowns,        \* number of shutdown() calls that have returned
    raises,           \* number of render calls that have raised
    gets,             \* history: per submitted job, how often a worker got it
    events,           \* history: what became of each render call
    cleared,          \* history: jobs removed from the queue while pending
    last,             \* history: the last handler run, its inputs and pre-state
    entry_tags,       \* per entry id: the tag ids of the entry object (entry.tags)
    libs_list,        \* the SettingItems.LIBS_LIST group: paths, oldest key first
    thumb_size        \* self.thumb_size

vars == <<lib_open, lib_count, lib_page_size, filter, pages_count, frame_content,
          selected, item_thumbs, thumb_job_queue, thumb_threads, update_cutoff,
          now, tracing, gen, wstate, wjob, ctl, shutdowns, raises, gets, events, cleared,
          last, entry_tags, libs_list, thumb_size>>

gridVars == <<filter, pages_count, frame_content, selected, item_thumbs>>

libVars == <<lib_open, lib_count, lib_page_size, entry_tags, libs_list>>

queueVars == <<thumb_job_queue, update_cutoff, tracing, gen, gets, cleared>>

workerVars == <<thumb_threads, wstate, wjob, raises, events>>

Workers == 1..NumWorkers

\* ------------------------------------------------- the library (collaborator)

\* FilterState(): page_index 0 and the default page_size.
FilterStateDefault(q) == [query |-> q, page_index |-> 0, page_size |-> NumSlots]

\* The ids of the entries a query matches among the entries 1..n.
Matching(q, n) == {e \in 1..n : q = "all" \/ e % 2 = 1}

\* search_library(filter).items: the window of the matches at offset
\* page_index * page_size, at most page_size long.
SearchItems(f, n) ==
    LET m   == Sorted(Matching(f.query, n))
        off == f.page_index * f.page_size
        end == IF off + f.page_size < Len(m) THEN off + f.page_size ELSE Len(m)
    IN  IF off >= Len(m) THEN <<>> ELSE SubSeq(m, off + 1, end)

\* search_library(filter).total_count
SearchTotal(f, n) == Cardinality(Matching(f.query, n))

\* ---------------------------------------------------------------- selection

\* select_item whose bridge range stops one short of its upper end.
SelectedAfterShortRange(sel, grid_index, append, bridge) ==
    IF append
    THEN IF grid_index \notin Elems(sel)
         THEN Append(sel, grid_index)
         ELSE ListRemove(sel, grid_index)
    ELSE IF bridge /\ sel # <<>>
    THEN IF Max(Elems(sel)) < grid_index
         THEN Range(Min(Elems(sel)), grid_index)
         ELSE Range(grid_index, Max(Elems(sel)))
    ELSE <<grid_index>>

\* select_item whose append mode appends without looking for the index.
SelectedAfterAlwaysAppend(sel, grid_index, append, bridge) ==
    IF append
    THEN Append(sel, grid_index)
    ELSE IF bridge /\ sel # <<>>
    THEN IF Max(Elems(sel)) < grid_index
         THEN Range(Min(Elems(sel)), grid_index + 1)
         ELSE Range(grid_index, Max(Elems(sel)) + 1)
    ELSE <<grid_index>>

\* self.selected after select_item(grid_index, append, bridge).
SelectedAfter(sel, grid_index, append, bridge) ==
    IF append
    THEN IF grid_index \notin Elems(sel)
         THEN Append(sel, grid_index)
         ELSE ListRemove(sel, grid_index)
    ELSE IF bridge /\ sel # <<>>
    THEN LET select_from == Min(Elems(sel))
             select_to   == Max(Elems(sel))
         IN  IF select_to < grid_index
             THEN Range(select_from, grid_index + 1)
             ELSE Range(grid_index, select_to + 1)
    ELSE <<grid_index>>

\* select_item whose plain click marks the clicked thumb and leaves the others.
ThumbsAfterSelectKeepOthers(thumbs, sel, grid_index, append, bridge) ==
    IF append
    THEN [thumbs EXCEPT ![grid_index].selected = (grid_index \notin Elems(sel))]
    ELSE [s \in Slots |->
            IF s = grid_index \/ (bridge /\ sel # <<>> /\
                                  s \in Elems(SelectedAfter(sel, grid_index,
                                                            append, bridge)))
            THEN [thumbs[s] EXCEPT !.selected = TRUE]
            ELSE thumbs[s]]

\* The thumbs after select_item: which thumb_button.set_selected calls it makes.
ThumbsAfterSelect(thumbs, sel, grid_index, append, bridge) ==
    IF append
    THEN [thumbs EXCEPT ![grid_index].selected = (grid_index \notin Elems(sel))]
    ELSE IF bridge /\ sel # <<>>
    THEN [s \in Slots |->
            IF s \in Elems(SelectedAfter(sel, grid_index, append, bridge))
            THEN [thumbs[s] EXCEPT !.selected = TRUE]
            ELSE thumbs[s]]
    ELSE [s \in Slots |-> [thumbs[s] EXCEPT !.selected = (s = grid_index)]]

\* A thumb the user can click: shown, in ENTRY mode, with a click handler.
Clickable(s) ==
    /\ item_thumbs[s].mode = "ENTRY"
    /\ item_thumbs[s].shown
    /\ item_thumbs[s].clickable

\* ------------------------------------------------------------------- jobs

MARKER_QUIT == [kind |-> "quit"]

\* sys.float_info.max: above every reading of the clock.
FloatMax == MaxClock + 1

\* One queue item (item_thumb.renderer.render, (timestamp, path, ..., is_loading,
\* is_grid_thumb)); refresh and n (the put's place in its update_thumbs call)
\* tell the items apart.
Job(refresh, n, slot, ts, is_loading, entry) ==
    [kind |-> "job", refresh |-> refresh, n |-> n, slot |-> slot, ts |-> ts,
     loading |-> is_loading, entry |-> entry]

\* The grid indices update_thumbs finds an entry and a thumb for, increasing.
PopulatedSlots(fc) == Sorted({s \in Slots : s < Len(fc) /\ fc[s + 1] # None})

\* zip_longest pairs an entry with no thumb: item_thumb is None and the first
\* loop raises AttributeError when it reaches it.
Overflow(fc) == Len(fc) > NumSlots

\* First loop of update_thumbs: one loading job per populated slot.
PlaceholderJobs(fc, refresh) ==
    LET pop == PopulatedSlots(fc)
    IN  [j \in 1..Len(pop) |-> Job(refresh, j, pop[j], FloatMax, TRUE, None)]

\* The second loop with time stamps read before the cutoff was.
ContentJobsEarlyStamp(fc, refresh, t) ==
    LET pop == PopulatedSlots(fc)
        k   == Len(pop)
    IN  [j \in 1..(2 * k) |->
            LET s == pop[(j + 1) \div 2]
            IN  Job(refresh, k + j, s, t - 1, FALSE, fc[s + 1])]

\* Second loop of update_thumbs: per populated slot the put of line 1139 and
\* the put of line 1168.
ContentJobs(fc, refresh, t) ==
    LET pop == PopulatedSlots(fc)
        k   == Len(pop)
    IN  [j \in 1..(2 * k) |->
            LET s == pop[(j + 1) \div 2]
            IN  Job(refresh, k + j, s, t, FALSE, fc[s + 1])]

\* update_thumbs whose second loop runs before its first.
BatchJobsContentFirst(fc, refresh, t) ==
    IF Overflow(fc)
    THEN PlaceholderJobs(fc, refresh)
    ELSE ContentJobs(fc, refresh, t) \o PlaceholderJobs(fc, refresh)

\* Everything one update_thumbs call puts, in order.
BatchJobs(fc, refresh, t) ==
    IF Overflow(fc)
    THEN PlaceholderJobs(fc, refresh)
    ELSE PlaceholderJobs(fc, refresh) \o ContentJobs(fc, refresh, t)

\* (item_thumb.mode, item_thumb.item_id) in self.selected: a tuple is compared
\* with the grid indices of the list, and equals none of them.
IsSelected(mode, item_id, sel) == \E i \in 1..Len(sel) : FALSE

TAG_ARCHIVED == "archived"

TAG_FAVORITE == "favorite"

\* The tag ids an entry can carry: the two with a badge and another one.
TagIds == {TAG_ARCHIVED, TAG_FAVORITE, "other"}

\* assign_badge(BadgeType.ARCHIVED, ...) and assign_badge(BadgeType.FAVORITE,
\* ...) that only ever switch a badge on.
BadgesAfterSticky(old, entry_tag_ids) ==
    old \cup ({"ARCHIVED" : t \in {TAG_ARCHIVED} \cap entry_tag_ids}
              \cup {"FAVORITE" : t \in {TAG_FAVORITE} \cap entry_tag_ids})

\* The badges of a thumb after assign_badge(BadgeType.ARCHIVED, TAG_ARCHIVED in
\* entry_tag_ids) and assign_badge(BadgeType.FAVORITE, TAG_FAVORITE in
\* entry_tag_ids); old is what the thumb showed before.
BadgesAfter(old, entry_tag_ids) ==
    {"ARCHIVED" : t \in {TAG_ARCHIVED} \cap entry_tag_ids}
        \cup {"FAVORITE" : t \in {TAG_FAVORITE} \cap entry_tag_ids}

\* The thumbs after update_thumbs over frame content fc.
ThumbsAfterUpdate(thumbs, fc, sel) ==
    [s \in Slots |->
        IF s >= Len(fc) \/ fc[s + 1] = None
        THEN [thumbs[s] EXCEPT !.shown = FALSE]
        ELSE IF Overflow(fc)
        THEN [thumbs[s] EXCEPT !.mode = "ENTRY", !.shown = TRUE]
        ELSE [thumbs[s] EXCEPT !.mode = "ENTRY", !.shown = TRUE,
                               !.clickable = TRUE,
                               !.badges = BadgesAfter(thumbs[s].badges,
                                                      entry_tags[fc[s + 1]]),
                               !.selected = IsSelected("ENTRY", fc[s + 1], sel)]]

\* self.thumb_sizes: the sizes of the table, in its order.
ThumbSizes == <<256, 192, 128, 96, 76>>

DefaultThumbSize == 128

\* The index the size combo box starts with (Medium).
DefaultSizeIndex == 2

\* thumb_size_callback whose test lets the index one past the table through;
\* self.thumb_sizes[index] then raises IndexError and the size stays.
ThumbSizeAfterLaxBound(old, index) ==
    IF index < Len(ThumbSizes) /\ index >= 0
    THEN ThumbSizes[index + 1]
    ELSE IF index = Len(ThumbSizes) THEN old ELSE DefaultThumbSize

\* self.thumb_size after the first statement of thumb_size_callback(index);
\* old is the size before.
ThumbSizeAfter(old, index) ==
    IF index < Len(ThumbSizes) /\ index >= 0
    THEN ThumbSizes[index + 1]
    ELSE DefaultThumbSize

\* ------------------------------------------------------------ initial state

\* An ItemThumb as _init_thumb_grid creates it (mode None, no click handler).
NewThumb ==
    [mode |-> "None", shown |-> TRUE, clickable |-> FALSE, selected |-> FALSE,
     icon |-> [kind |-> "blank", entry |-> None], badges |-> {}]

\* What a handler leaves in the history variable last.
LastOp(op) ==
    [op |-> op, g |-> 0, append |-> FALSE, bridge |-> FALSE, target |-> 0,
     pre |-> <<>>, ids |-> {}, path |-> "", name |-> "", calls |-> <<>>]

InitState ==
    /\ lib_open = FALSE
    /\ lib_count = 0
    /\ lib_page_size = NumSlots
    /\ filter = FilterStateDefault("all")
    /\ pages_count = 0
    /\ frame_content = <<>>
    /\ selected = <<>>
    /\ item_thumbs = [s \in Slots |-> NewThumb]
    /\ thumb_job_queue = <<>>
    /\ thumb_threads = 0
    /\ update_cutoff = 0
    /\ now = 0
    /\ gen = 0
    /\ wstate = [w \in Workers |-> "none"]
    /\ wjob = [w \in Workers |-> MARKER_QUIT]
    /\ ctl = "loop"
    /\ shutdowns = 0
    /\ raises = 0
    /\ gets = [j \in {} |-> 0]
    /\ events = {}
    /\ cleared = {}
    /\ last = LastOp("init")
    /\ entry_tags = [e \in 1..MaxEntries |-> {}]
    /\ libs_list = <<>>
    /\ thumb_size = DefaultThumbSize

Init == InitState /\ tracing = FALSE

InitQueue == InitState /\ tracing = TRUE

\* ----------------------------------------------------- control-thread handlers

\* The jobs (not the markers) waiting in the queue.
PendingJobs == {thumb_job_queue[i] : i \in {k \in 1..Len(thumb_job_queue) :
                                            thumb_job_queue[k].kind = "job"}}

\* History: the jobs a queue.clear() removes.
ClearedAfter == IF tracing THEN cleared \cup PendingJobs ELSE cleared

\* update_thumbs that forgets the queue.clear().
CancelledKeepsPending(queue) == queue

\* The queue after the queue.clear() of update_thumbs (line 1094).
Cancelled(queue) == <<>>

\* self.thumb_job_queue.queue.clear()
QueueClear ==
    /\ thumb_job_queue' = <<>>
    /\ cleared' = ClearedAfter

\* update_thumbs over frame content fc, with sel the selection at the call:
\* clear the queue and set the cutoff under the queue's mutex, then put the
\* batch and touch the thumbs.
UpdateThumbsQueue(fc) ==
    LET refresh == IF tracing THEN gen + 1 ELSE 0
        batch   == BatchJobs(fc, refresh, now)
    IN  /\ tracing => gen < MaxRefresh
        /\ cleared' = ClearedAfter
        /\ update_cutoff' = now
        /\ thumb_job_queue' = Cancelled(thumb_job_queue) \o batch
        /\ gen' = refresh
        /\ gets' = IF tracing
                   THEN [j \in DOMAIN gets \cup Elems(batch) |->
                            IF j \in DOMAIN gets THEN gets[j] ELSE 0]
                   ELSE gets
        /\ UNCHANGED tracing

UpdateThumbs(fc, sel) ==
    /\ UpdateThumbsQueue(fc)
    /\ item_thumbs' = ThumbsAfterUpdate(item_thumbs, fc, sel)

\* thumb_size_callback(index): update_thumbs over the frame content as it is,
\* then a blank icon on every thumb; when update_thumbs raises, nothing after
\* it runs. The SIGTERM handler runs between two bytecodes of whatever handler
\* the control thread is in, so the rest of this handler can run after the
\* shutdown() of handle_sigterm has returned and before app.exec() does.
ThumbSizeCallbackClearsSelection(index) ==
    /\ ctl \in {"loop", "quitting"}
    /\ thumb_size' = ThumbSizeAfter(thumb_size, index)
    /\ UpdateThumbsQueue(frame_content)
    /\ selected' = <<>>
    /\ item_thumbs' =
          [s \in Slots |->
              [ThumbsAfterUpdate(item_thumbs, frame_content, <<>>)[s]
                  EXCEPT !.icon = [kind |-> "blank", entry |-> None]]]
    /\ last' = [LastOp("thumb_size") EXCEPT !.g = index]
    /\ UNCHANGED <<libVars, filter, pages_count, frame_content,
                   workerVars, now, ctl, shutdowns>>

ThumbSizeCallback(index) ==
    /\ ctl \in {"loop", "quitting"}
    /\ thumb_size' = ThumbSizeAfter(thumb_size, index)
    /\ UpdateThumbsQueue(frame_content)
    /\ item_thumbs' =
          IF Overflow(frame_content)
          THEN ThumbsAfterUpdate(item_thumbs, frame_content, selected)
          ELSE [s \in Slots |->
                  [ThumbsAfterUpdate(item_thumbs, frame_content, selected)[s]
                      EXCEPT !.icon = [kind |-> "blank", entry |-> None]]]
    /\ last' = [LastOp("thumb_size") EXCEPT !.g = index]
    /\ UNCHANGED <<libVars, filter, pages_count, frame_content, selected,
                   workerVars, now, ctl, shutdowns>>

\* The members of MacroID, in the order of their declaration.
MacroIDs == <<"AUTOFILL", "SIDECAR", "BUILD_URL", "MATCH", "CLEAN_URL">>

RECURSIVE RunMacro(_, _)
RECURSIVE AutofillFrom(_, _)
RECURSIVE AutofillBackFrom(_, _)

\* The loop `for macro_id in MacroID` of run_macro from its i-th member on.
AutofillFrom(i, grid_idx) ==
    IF i > Len(MacroIDs)
    THEN <<>>
    ELSE (IF MacroIDs[i] = "AUTOFILL"
          THEN <<>>
          ELSE RunMacro(MacroIDs[i], grid_idx)) \o AutofillFrom(i + 1, grid_idx)

\* The same loop over reversed(MacroID).
AutofillBackFrom(i, grid_idx) ==
    IF i < 1
    THEN <<>>
    ELSE (IF MacroIDs[i] = "AUTOFILL"
          THEN <<>>
          ELSE RunMacro(MacroIDs[i], grid_idx)) \o AutofillBackFrom(i - 1, grid_idx)

\* run_macro whose autofill branch goes through the macros last to first.
RunMacroBackwards(name, grid_idx) ==
    <<[macro |-> name, gid |-> grid_idx]>>
        \o (IF name = "AUTOFILL"
            THEN AutofillBackFrom(Len(MacroIDs), grid_idx)
            ELSE <<>>)

\* run_macro(name, grid_idx): the calls of run_macro it amounts to, itself
\* first, each with its macro and grid index.
RunMacro(name, grid_idx) ==
    <<[macro |-> name, gid |-> grid_idx]>>
        \o (IF name = "AUTOFILL" THEN AutofillFrom(1, grid_idx) ELSE <<>>)

\* run_macro can read its entry: frame_content[grid_idx] is an Entry.
HasEntry(grid_idx) ==
    grid_idx < Len(frame_content) /\ frame_content[grid_idx + 1] # None

RECURSIVE MacroCalls(_, _)
\* run_macros(name, grid_idx): run_macro for each index of the list, up to
\* the first whose frame content is no entry, where run_macro raises.
MacroCalls(name, grid_idx) ==
    IF grid_idx = <<>> \/ ~HasEntry(Head(grid_idx))
    THEN <<>>
    ELSE RunMacro(name, Head(grid_idx)) \o MacroCalls(name, Tail(grid_idx))

\* run_macros(name, self.selected), as the Autofill menu action calls it.
RunMacros(name) ==
    /\ ctl = "loop"
    /\ last' = [LastOp("run_macros") EXCEPT !.name = name,
                                                 !.pre = selected,
                                                 !.calls = MacroCalls(name, selected)]
    /\ UNCHANGED <<libVars, gridVars, queueVars, workerVars, now, thumb_size,
                   ctl, shutdowns>>

\* item_thumb.refresh_badge(entry): both badges assigned from the entry's tags.
RefreshBadge(thumb, entry) ==
    [thumb EXCEPT !.badges = BadgesAfter(thumb.badges, entry_tags[entry])]

\* update_badges(grid_item_ids): every grid index when none is passed.
UpdateBadges(grid_item_ids) ==
    /\ ctl = "loop"
    /\ \A i \in grid_item_ids : i \in Slots /\ i < Len(frame_content)
    /\ LET ids == IF grid_item_ids = {}
                  THEN {i \in Slots : i < Len(frame_content)}
                  ELSE grid_item_ids
       IN  item_thumbs' =
              [s \in Slots |->
                  IF s \in ids /\ frame_content[s + 1] # None
                  THEN RefreshBadge(item_thumbs[s], frame_content[s + 1])
                  ELSE item_thumbs[s]]
    /\ last' = [LastOp("update_badges") EXCEPT !.ids = grid_item_ids]
    /\ UNCHANGED <<libVars, filter, pages_count, frame_content, selected,
                   queueVars, workerVars, now, thumb_size, ctl, shutdowns>>

\* The tags of entry e are edited: its tag ids become tag_ids.
TagsChanged(e, tag_ids) ==
    /\ ctl = "loop"
    /\ lib_open
    /\ entry_tags[e] # tag_ids
    /\ entry_tags' = [entry_tags EXCEPT ![e] = tag_ids]
    /\ last' = LastOp("tags_changed")
    /\ UNCHANGED <<lib_open, lib_count, lib_page_size, libs_list, gridVars,
                   queueVars, workerVars, now, thumb_size, ctl, shutdowns>>

\* remove_recent_library(item_key)
RemoveRecentLibrary(item_key) ==
    /\ ctl = "loop"
    /\ item_key \in DOMAIN libs_list
    /\ libs_list' = [i \in 1..(Len(libs_list) - 1) |->
                        IF i < item_key THEN libs_list[i] ELSE libs_list[i + 1]]
    /\ last' = LastOp("remove_recent")
    /\ UNCHANGED <<lib_open, lib_count, lib_page_size, entry_tags, gridVars,
                   queueVars, workerVars, now, thumb_size, ctl, shutdowns>>

\* filter_items that calls update_thumbs before it assigns frame_content.
FilterItemsRenderFirst(pre, f, sel, open, count) ==
    IF ~open
    THEN /\ filter' = pre
         /\ UNCHANGED <<pages_count, frame_content, item_thumbs, queueVars>>
    ELSE LET items == SearchItems(f, count)
         IN  /\ filter' = f
             /\ frame_content' = items
             /\ UpdateThumbs(frame_content, sel)
             /\ pages_count' = IF Overflow(frame_content)
                               THEN pages_count
                               ELSE Ceil(SearchTotal(f, count), f.page_size)

\* filter_items: pre is self.filter at the call, f what line 1194 makes of it,
\* sel the selection at the call, open and count the library at the call.
\* When update_thumbs raises (Overflow), line 1224 is not reached.
FilterItems(pre, f, sel, open, count) ==
    IF ~open
    THEN /\ filter' = pre
         /\ UNCHANGED <<pages_count, frame_content, item_thumbs, queueVars>>
    ELSE LET items == SearchItems(f, count)
         IN  /\ filter' = f
             /\ frame_content' = items
             /\ UpdateThumbs(items, sel)
             /\ pages_count' = IF Overflow(items)
                               THEN pages_count
                               ELSE Ceil(SearchTotal(f, count), f.page_size)

\* Search button / return in the search field:
\* filter_items(FilterState.from_search_query(text)).
SearchQuery(q) ==
    /\ ctl = "loop"
    /\ FilterItems(filter, FilterStateDefault(q), selected, lib_open, lib_count)
    /\ last' = LastOp("search")
    /\ UNCHANGED <<libVars, selected, workerVars, now, thumb_size, ctl, shutdowns>>

\* filter_items() without a filter: after new files were added, or after the
\* file-extension modal is saved.
RefreshItems ==
    /\ ctl = "loop"
    /\ FilterItems(filter, filter, selected, lib_open, lib_count)
    /\ last' = LastOp("refresh")
    /\ UNCHANGED <<libVars, selected, workerVars, now, thumb_size, ctl, shutdowns>>

\* page_move without the min(..., self.pages_count - 1).
ClampPageNoCeiling(page_index, pages) ==
    IF page_index < 0 THEN 0 ELSE page_index

\* max(0, min(page_index, self.pages_count - 1))
ClampPage(page_index, pages) ==
    LET lo == IF page_index < pages - 1 THEN page_index ELSE pages - 1
    IN  IF lo > 0 THEN lo ELSE 0

\* page_move(delta) or page_move(page_id=...), target the requested page.
PageMoveTo(target) ==
    /\ ctl = "loop"
    /\ LET f == [filter EXCEPT !.page_index = ClampPage(target, pages_count)]
       IN  FilterItems(f, f, selected, lib_open, lib_count)
    /\ last' = [LastOp("page_move") EXCEPT !.target = target]
    /\ UNCHANGED <<libVars, selected, workerVars, now, thumb_size, ctl, shutdowns>>

PageMove(delta) == PageMoveTo(filter.page_index + delta)

\* remove_grid_item(grid_idx)
RemoveGridItem(grid_idx) ==
    /\ ctl = "loop"
    /\ grid_idx < Len(frame_content)
    /\ frame_content[grid_idx + 1] # None
    /\ frame_content' = [frame_content EXCEPT ![grid_idx + 1] = None]
    /\ item_thumbs' = IF grid_idx \in Slots
                      THEN [item_thumbs EXCEPT ![grid_idx].shown = FALSE]
                      ELSE item_thumbs
    /\ last' = [LastOp("remove_grid_item") EXCEPT !.g = grid_idx]
    /\ UNCHANGED <<libVars, filter, pages_count, selected, queueVars, workerVars,
                   now, thumb_size, ctl, shutdowns>>

\* select_item(grid_index, append, bridge), called by a click on a thumb.
SelectItem(grid_index, append, bridge) ==
    /\ ctl = "loop"
    /\ Clickable(grid_index)
    /\ selected' = SelectedAfter(selected, grid_index, append, bridge)
    /\ item_thumbs' = ThumbsAfterSelect(item_thumbs, selected, grid_index,
                                        append, bridge)
    /\ last' = [LastOp("select_item") EXCEPT !.g = grid_index,
                                                  !.append = append,
                                                  !.bridge = bridge,
                                                  !.pre = selected]
    /\ UNCHANGED <<libVars, filter, pages_count, frame_content, queueVars,
                   workerVars, now, thumb_size, ctl, shutdowns>>

\* select_all_action_callback
SelectAll ==
    /\ ctl = "loop"
    /\ selected' = Range(0, Len(frame_content))
    /\ item_thumbs' = [s \in Slots |->
                          IF s < Len(frame_content)
                          THEN [item_thumbs[s] EXCEPT !.selected = TRUE]
                          ELSE item_thumbs[s]]
    /\ last' = LastOp("select_all")
    /\ UNCHANGED <<libVars, filter, pages_count, frame_content, queueVars,
                   workerVars, now, thumb_size, ctl, shutdowns>>

\* clear_select_action_callback
ClearSelect ==
    /\ ctl = "loop"
    /\ selected' = <<>>
    /\ item_thumbs' = [s \in Slots |-> [item_thumbs[s] EXCEPT !.selected = FALSE]]
    /\ last' = LastOp("clear_select")
    /\ UNCHANGED <<libVars, filter, pages_count, frame_content, queueVars,
                   workerVars, now, thumb_size, ctl, shutdowns>>

\* init_workers without its `if not self.thumb_threads`.
InitWorkersAlways ==
    /\ thumb_threads' = IF thumb_threads = 0 THEN NumWorkers ELSE 2 * NumWorkers
    /\ wstate' = [w \in Workers |-> "idle"]

\* init_workers
InitWorkers ==
    IF thumb_threads = 0
    THEN /\ thumb_threads' = NumWorkers
         /\ wstate' = [w \in Workers |-> "idle"]
    ELSE UNCHANGED <<thumb_threads, wstate>>

item_limit == 5

\* The paths a library can be opened from.
Paths == {"p1", "p2", "p3", "p4", "p5", "p6", "p7"}

\* The path the specifications about the grid and the queue open.
GridPath == "p1"

RECURSIVE Reverse(_)
Reverse(s) == IF s = <<>> THEN <<>> ELSE Reverse(Tail(s)) \o <<Head(s)>>

\* update_libs_list that sorts without reverse=True.
UpdateLibsListOldestFirst(settings, path) ==
    LET key           == Len(settings) + 1
        all_libs      == [k \in {key} \cup {i \in DOMAIN settings :
                                                settings[i] # path} |->
                             IF k = key THEN path ELSE settings[k]]
        all_libs_list == Sorted(DOMAIN all_libs)
        kept          == SubSeq(all_libs_list, 1,
                                Min({item_limit, Len(all_libs_list)}))
    IN  [i \in 1..Len(kept) |-> all_libs[kept[i]]]

\* The LIBS_LIST group after update_libs_list(path). The keys are time stamps,
\* the new one later than those stored; the group is kept as the list of its
\* paths by increasing key, so a key is the place of its path in the list.
UpdateLibsList(settings, path) ==
    LET key           == Len(settings) + 1
        all_libs      == [k \in {key} \cup {i \in DOMAIN settings :
                                                settings[i] # path} |->
                             IF k = key THEN path ELSE settings[k]]
        all_libs_list == Reverse(Sorted(DOMAIN all_libs))
        kept          == SubSeq(all_libs_list, 1,
                                Min({item_limit, Len(all_libs_list)}))
    IN  [i \in 1..Len(kept) |-> all_libs[kept[Len(kept) + 1 - i]]]

\* open_library(path) whose lib.open_library succeeds on a library of n
\* entries with page-size preference ps, then init_library.
OpenLibrary(path, n, ps) ==
    /\ ctl = "loop"
    /\ lib_open' = TRUE
    /\ lib_count' = n
    /\ lib_page_size' = ps
    /\ libs_list' = UpdateLibsList(libs_list, path)
    /\ UNCHANGED entry_tags
    /\ InitWorkers
    /\ selected' = <<>>
    /\ LET f == [filter EXCEPT !.page_size = ps]
       IN  FilterItems(f, f, <<>>, TRUE, n)
    /\ last' = [LastOp("open_library") EXCEPT !.path = path]
    /\ UNCHANGED <<wjob, raises, events, now, thumb_size, ctl, shutdowns>>

\* init_library that calls init_workers before it looks at the open status.
OpenLibraryFailedStartsWorkers ==
    /\ ctl = "loop"
    /\ InitWorkers
    /\ last' = LastOp("open_failed")
    /\ UNCHANGED <<libVars, gridVars, queueVars, wjob, raises, events, now, thumb_size, ctl,
                   shutdowns>>

\* open_library(path) whose lib.open_library fails: init_library shows the
\* error message and returns.
OpenLibraryFailed ==
    /\ ctl = "loop"
    /\ last' = LastOp("open_failed")
    /\ UNCHANGED <<libVars, gridVars, queueVars, workerVars, now, thumb_size, ctl, shutdowns>>

\* close_library() that does not reset self.selected.
CloseLibraryKeepsSelection ==
    /\ ctl = "loop"
    /\ IF ~lib_open
       THEN UNCHANGED <<libVars, thumb_job_queue, cleared, selected,
                        frame_content, item_thumbs>>
       ELSE /\ lib_open' = FALSE
            /\ lib_count' = 0
            /\ UNCHANGED <<lib_page_size, entry_tags, libs_list, selected>>
            /\ QueueClear
            /\ frame_content' = <<>>
            /\ item_thumbs' = [s \in Slots |->
                                  [item_thumbs[s] EXCEPT !.mode = "None"]]
    /\ last' = LastOp("close_library")
    /\ UNCHANGED <<filter, pages_count, update_cutoff, tracing, gen, gets,
                   workerVars, now, thumb_size, ctl, shutdowns>>

\* close_library() from the File menu.
CloseLibrary ==
    /\ ctl = "loop"
    /\ IF ~lib_open
       THEN UNCHANGED <<libVars, thumb_job_queue, cleared, selected,
                        frame_content, item_thumbs>>
       ELSE /\ lib_open' = FALSE
            /\ lib_count' = 0
            /\ UNCHANGED <<lib_page_size, entry_tags, libs_list>>
            /\ QueueClear
            /\ selected' = <<>>
            /\ frame_content' = <<>>
            /\ item_thumbs' = [s \in Slots |->
                                  [item_thumbs[s] EXCEPT !.mode = "None"]]
    /\ last' = LastOp("close_library")
    /\ UNCHANGED <<filter, pages_count, update_cutoff, tracing, gen, gets,
                   workerVars, now, thumb_size, ctl, shutdowns>>

\* Entries are added to or deleted from the open library by a collaborator
\* (directory refresh, fix-unlinked, ...): n is the new number of entries.
LibraryChanged(n) ==
    /\ ctl = "loop"
    /\ lib_open
    /\ n # lib_count
    /\ lib_count' = n
    /\ last' = LastOp("library_changed")
    /\ UNCHANGED <<lib_open, lib_page_size, entry_tags, libs_list, gridVars,
                   queueVars, workerVars, now, thumb_size, ctl, shutdowns>>

\* time.time() advances.
Tick ==
    /\ now < MaxClock
    /\ now' = now + 1
    /\ UNCHANGED <<thumb_size, libVars, gridVars, queueVars, workerVars, ctl, shutdowns, last>>

\* ------------------------------------------------------------------ shutdown

\* shutdown() that puts one MARKER_QUIT too few.
ShutdownBeginOneMarkerShort ==
    /\ IF lib_open
       THEN /\ lib_open' = FALSE
            /\ lib_count' = 0
            /\ cleared' = ClearedAfter
            /\ thumb_job_queue' = [i \in 1..(thumb_threads - 1) |-> MARKER_QUIT]
       ELSE /\ UNCHANGED <<lib_open, lib_count, cleared>>
            /\ thumb_job_queue' =
                   thumb_job_queue \o [i \in 1..(thumb_threads - 1) |-> MARKER_QUIT]
    /\ UNCHANGED <<lib_page_size, entry_tags, libs_list, gridVars, update_cutoff,
                   tracing, gen, gets, workerVars, now, thumb_size, shutdowns>>

\* shutdown() up to its first thread.wait(): close_library(is_shutdown=True),
\* then one MARKER_QUIT per thread of self.thumb_threads.
ShutdownBegin ==
    /\ IF lib_open
       THEN /\ lib_open' = FALSE
            /\ lib_count' = 0
            /\ cleared' = ClearedAfter
            /\ thumb_job_queue' = [i \in 1..thumb_threads |-> MARKER_QUIT]
       ELSE /\ UNCHANGED <<lib_open, lib_count, cleared>>
            /\ thumb_job_queue' =
                   thumb_job_queue \o [i \in 1..thumb_threads |-> MARKER_QUIT]
    /\ UNCHANGED <<lib_page_size, entry_tags, libs_list, gridVars, update_cutoff,
                   tracing, gen, gets, workerVars, now, thumb_size, shutdowns>>

\* SIGINT/SIGTERM/SIGQUIT: handle_sigterm calls shutdown().
Sigterm ==
    /\ ctl = "loop"
    /\ ShutdownBegin
    /\ ctl' = "join_sigterm"
    /\ last' = LastOp("shutdown")

\* app.exec() returns (the window is closed, or QApplication.quit() was called
\* by an earlier shutdown) and start() calls shutdown().
AppExit ==
    /\ ctl \in {"loop", "quitting"}
    /\ ShutdownBegin
    /\ ctl' = "join_exit"
    /\ last' = LastOp("shutdown")

\* The thread.wait() loop of shutdown() gets past every thread, then
\* QApplication.quit() and return.
ShutdownJoin ==
    /\ ctl \in {"join_sigterm", "join_exit"}
    /\ \A w \in 1..thumb_threads : wstate[w] \in {"done", "dead"}
    /\ shutdowns' = shutdowns + 1
    /\ ctl' = IF ctl = "join_sigterm" THEN "quitting" ELSE "exited"
    /\ UNCHANGED <<libVars, gridVars, queueVars, workerVars, now, thumb_size, last>>

\* ------------------------------------------------------------- Consumer.run

\* A Consumer on a queue that hands out its newest item.
WorkerGetNewest(w) ==
    /\ wstate[w] = "idle"
    /\ thumb_job_queue # <<>>
    /\ LET job == thumb_job_queue[Len(thumb_job_queue)]
       IN  /\ thumb_job_queue' =
                  SubSeq(thumb_job_queue, 1, Len(thumb_job_queue) - 1)
           /\ IF job.kind = "quit"
              THEN /\ wstate' = [wstate EXCEPT ![w] = "done"]
                   /\ UNCHANGED <<wjob, gets>>
              ELSE /\ wstate' = [wstate EXCEPT ![w] = "running"]
                   /\ wjob' = [wjob EXCEPT ![w] = job]
                   /\ gets' = IF tracing
                              THEN [gets EXCEPT ![job] = @ + 1]
                              ELSE gets
    /\ UNCHANGED <<libVars, gridVars, update_cutoff, tracing, gen, cleared,
                   thumb_threads, raises, events, now, thumb_size, ctl, shutdowns, last>>

\* job = self.queue.get(); MARKER_QUIT breaks the loop.
WorkerGet(w) ==
    /\ wstate[w] = "idle"
    /\ thumb_job_queue # <<>>
    /\ LET job == Head(thumb_job_queue)
       IN  /\ thumb_job_queue' = Tail(thumb_job_queue)
           /\ IF job.kind = "quit"
              THEN /\ wstate' = [wstate EXCEPT ![w] = "done"]
                   /\ UNCHANGED <<wjob, gets>>
              ELSE /\ wstate' = [wstate EXCEPT ![w] = "running"]
                   /\ wjob' = [wjob EXCEPT ![w] = job]
                   /\ gets' = IF tracing
                              THEN [gets EXCEPT ![job] = @ + 1]
                              ELSE gets
    /\ UNCHANGED <<libVars, gridVars, update_cutoff, tracing, gen, cleared,
                   thumb_threads, raises, events, now, thumb_size, ctl, shutdowns, last>>

\* What the render call's result does to the thumb: a job whose timestamp
\* predates the cutoff is discarded, any other is committed.
Stale(job, cutoff) == job.ts < cutoff

IconOf(job) ==
    IF job.loading
    THEN [kind |-> "loading", entry |-> None]
    ELSE [kind |-> "content", entry |-> job.entry]

\* History of one render call: the job, how the call ended, whether the grid
\* had been refreshed again since the job was put (late) and whether the
\* job's timestamp was below the cutoff then (below).
Event(job, kind) ==
    [job |-> job, kind |-> kind, late |-> job.refresh < gen,
     below |-> job.ts < update_cutoff]

\* The worker holds no job.
NoJob == MARKER_QUIT

\* job[0](*job[1]) returns.
RenderReturns(w) ==
    /\ wstate[w] = "running"
    /\ LET job == wjob[w]
       IN  IF Stale(job, update_cutoff)
           THEN /\ events' = events \cup {Event(job, "discarded")}
                /\ UNCHANGED item_thumbs
           ELSE /\ events' = events \cup {Event(job, "committed")}
                /\ item_thumbs' = [item_thumbs EXCEPT ![job.slot].icon = IconOf(job)]
    /\ wstate' = [wstate EXCEPT ![w] = "idle"]
    /\ wjob' = [wjob EXCEPT ![w] = NoJob]
    /\ UNCHANGED <<libVars, filter, pages_count, frame_content, selected,
                   queueVars, thumb_threads, raises, now, thumb_size, ctl, shutdowns, last>>

\* The state of a Consumer after its render call raised: `except RuntimeError:
\* pass` goes round the loop, any other exception leaves run().
AfterRaise(exc) == IF exc = "RuntimeError" THEN "idle" ELSE "dead"

\* job[0](*job[1]) raises exc.
RenderRaises(w, exc) ==
    /\ wstate[w] = "running"
    /\ raises < MaxRaise
    /\ raises' = raises + 1
    /\ events' = events \cup {Event(wjob[w], exc)}
    /\ wstate' = [wstate EXCEPT ![w] = AfterRaise(exc)]
    /\ wjob' = [wjob EXCEPT ![w] = NoJob]
    /\ UNCHANGED <<libVars, gridVars, queueVars, thumb_threads, now, thumb_size, ctl,
                   shutdowns, last>>

\* ------------------------------------------------------------ specifications

SelectModes == {<<FALSE, FALSE>>, <<TRUE, FALSE>>, <<FALSE, TRUE>>}

\* The control thread on the grid of one library: the selection handlers.
Next ==
    \/ \E g \in Slots, m \in SelectModes : SelectItem(g, m[1], m[2])
    \/ SelectAll
    \/ ClearSelect
    \/ \E g \in 0..MaxEntries : RemoveGridItem(g)
    \/ \E q \in Queries : SearchQuery(q)
    \/ \E d \in {-1, 1} : PageMove(d)
    \/ \E n \in 0..MaxEntries : OpenLibrary(GridPath, n, NumSlots)
    \/ OpenLibraryFailed
    \/ CloseLibrary

Spec == Init /\ [][Next]_vars

\* Page ids the pagination widget may emit: below, inside and above the range.
PageIds == {-1, 0, 2, MaxEntries + 1}

\* The control thread searching and paging through a library that changes.
NextPage ==
    \/ \E q \in Queries : SearchQuery(q)
    \/ RefreshItems
    \/ \E delta \in {-1, 1} : PageMove(delta)
    \/ \E t \in PageIds : PageMoveTo(t)
    \/ \E n \in 0..MaxEntries, ps \in LibPageSizes : OpenLibrary(GridPath, n, ps)
    \/ OpenLibraryFailed
    \/ CloseLibrary
    \/ \E n \in 0..MaxEntries : LibraryChanged(n)

SpecPage == Init /\ [][NextPage]_vars

Exceptions == {"RuntimeError", "OtherError"}

\* The control thread and the Consumer threads around the job queue.
NextQueue ==
    \/ \E n \in 1..QueueEntries : OpenLibrary(GridPath, n, NumSlots)
    \/ RefreshItems
    \/ ThumbSizeCallback(DefaultSizeIndex)
    \/ CloseLibrary
    \/ Tick
    \/ Sigterm
    \/ AppExit
    \/ ShutdownJoin
    \/ \E w \in Workers : WorkerGet(w)
    \/ \E w \in Workers : RenderReturns(w)
    \/ \E w \in Workers, exc \in Exceptions : RenderRaises(w, exc)

SpecQueue == InitQueue /\ [][NextQueue]_vars

\* Entries and tag sets of the specification about badges.
BadgeEntries == 2

\* The control thread on a grid whose entries' tags are edited.
NextBadge ==
    \/ \E n \in 1..BadgeEntries : OpenLibrary(GridPath, n, NumSlots)
    \/ \E e \in 1..BadgeEntries, t \in SUBSET TagIds : TagsChanged(e, t)
    \/ \E ids \in SUBSET Slots : UpdateBadges(ids)
    \/ ThumbSizeCallback(DefaultSizeIndex)
    \/ RefreshItems

SpecBadge == Init /\ [][NextBadge]_vars

\* Indices the size combo box may emit: below, inside and above the table.
SizeIndices == -1..5

\* The control thread on the view handlers: thumbnail size and macros.
NextView ==
    \/ \E n \in 0..MaxEntries : OpenLibrary(GridPath, n, NumSlots)
    \/ SelectAll
    \/ ClearSelect
    \/ \E g \in 0..MaxEntries : RemoveGridItem(g)
    \/ \E d \in {-1, 1} : PageMove(d)
    \/ \E i \in SizeIndices : ThumbSizeCallback(i)
    \/ \E i \in 1..Len(MacroIDs) : RunMacros(MacroIDs[i])
    \/ CloseLibrary

SpecView == Init /\ [][NextView]_vars

\* The control thread opening and closing libraries at several paths.
NextLibs ==
    \/ \E path \in Paths : OpenLibrary(path, 0, NumSlots)
    \/ OpenLibraryFailed
    \/ CloseLibrary
    \/ \E k \in 1..item_limit : RemoveRecentLibrary(k)

SpecLibs == Init /\ [][NextLibs]_vars

\* The same with the scheduling the threads get: a Consumer blocked in
\* queue.get() on a non-empty queue gets an item, a render call that can
\* return does, and thread.wait() returns once the threads have finished.
SpecShutdown ==
    /\ SpecQueue
    /\ \A w \in Workers : WF_vars(WorkerGet(w)) /\ WF_vars(RenderReturns(w))
    /\ WF_vars(ShutdownJoin)

\* ==================================================================== claims

\* The jobs the Consumers are running.
RunningJobs == {wjob[w] : w \in {x \in Workers : wstate[x] = "running"}}

EventsOf(j) == {e \in events : e.job = j}

\* How often job j stands in the queue.
TimesQueued(j) ==
    Cardinality({i \in 1..Len(thumb_job_queue) : thumb_job_queue[i] = j})

NoDuplicates(s) == \A i, k \in 1..Len(s) : s[i] = s[k] => i = k

\* ---------------------------------------------------------------------- C1

\* C1 as stated: of the jobs submitted while a library is open and no shutdown
\* has begun, one that is neither pending nor in flight and whose render call
\* did not raise was never committed if its timestamp is below the cutoff,
\* and was got and committed exactly once if its timestamp is at or above it.
C1_StatedRenderedExactlyOnce ==
    (ctl = "loop" /\ lib_open) =>
        \A j \in DOMAIN gets :
            (/\ j \notin PendingJobs
             /\ j \notin RunningJobs
             /\ \A e \in EventsOf(j) : e.kind \notin {"RuntimeError", "OtherError"})
            => IF j.ts < update_cutoff
               THEN \A e \in EventsOf(j) : e.kind # "committed"
               ELSE /\ gets[j] = 1
                    /\ \E e \in EventsOf(j) : e.kind = "committed"

\* C1 amended: every submitted job is pending, cleared, in flight or finished,
\* and only one of them. A job is got at most once and by one worker, so its
\* render call runs at most once; a call that returns commits exactly when the
\* timestamp is at or above the cutoff at that moment and discards otherwise;
\* a job pending when the queue is cleared is never got, whatever its
\* timestamp, and the jobs left pending are those of the latest refresh.
C1_EachJobAtMostOnce ==
    \A j \in DOMAIN gets :
        /\ gets[j] <= 1
        /\ TimesQueued(j) <= 1
        /\ Cardinality(EventsOf(j)) <= 1
        /\ Cardinality({w \in Workers : wstate[w] = "running" /\ wjob[w] = j}) <= 1
        /\ gets[j] = 0 =>
              /\ (j \in PendingJobs) # (j \in cleared)
              /\ j \notin RunningJobs
              /\ EventsOf(j) = {}
        /\ gets[j] = 1 =>
              /\ j \notin PendingJobs
              /\ j \notin cleared
              /\ (j \in RunningJobs) # (EventsOf(j) # {})
        /\ \A e \in EventsOf(j) :
              /\ e.kind = "committed" => ~e.below
              /\ e.kind = "discarded" => e.below
        /\ j \in PendingJobs => j.refresh = gen

\* C1 witness: after a second refresh, a placeholder of the first refresh was
\* cleared without being got although its timestamp is at or above the cutoff,
\* and a job of the second refresh was committed.
C1_Witness ==
    /\ gen = 2
    /\ \E j \in cleared :
          j.refresh = 1 /\ j.loading /\ j.ts >= update_cutoff /\ gets[j] = 0
    /\ \E e \in events : e.kind = "committed" /\ e.job.refresh = 2

\* ---------------------------------------------------------------------- C2

\* C2 as stated: no job put before a cancel (the clear-and-cutoff of a later
\* update_thumbs) commits its result after that cancel.
C2_NoCommitAfterCancel ==
    \A e \in events : e.kind = "committed" => ~e.late

\* ---------------------------------------------------------------------- C3

\* C3 as stated: when a call of shutdown() returns, the first or the second,
\* every thread of thumb_threads has terminated and the queue holds no job,
\* only terminators.
C3_ShutdownLeavesNoWork ==
    [][shutdowns' > shutdowns =>
          /\ \A w \in 1..thumb_threads : wstate'[w] \in {"done", "dead"}
          /\ PendingJobs' = {}]_vars

\* ---------------------------------------------------------------------- C4

\* C4 as stated: no Consumer stops because a render call raised; after either
\* kind of failure it is back at queue.get().
C4_WorkerSurvivesRaise ==
    \A w \in Workers : wstate[w] # "dead"

\* ---------------------------------------------------------------------- C5

\* A select_item step in bridge mode on a non-empty selection.
C5_BridgeStep ==
    /\ last'.op = "select_item"
    /\ last'.bridge
    /\ ~last'.append
    /\ selected # <<>>

\* C5 as stated: a bridge click on g makes the selection the whole range from
\* min(S \cup {g}) to max(S \cup {g}).
C5_StatedFullSpan ==
    [][C5_BridgeStep =>
          Elems(selected') = Min(Elems(selected) \cup {last'.g}) ..
                             Max(Elems(selected) \cup {last'.g})]_vars

\* C5 amended: a bridge click on g makes the selection the range min(S)..g
\* when g lies above max(S), and the range g..max(S) otherwise: for g below S
\* that is the whole span, for g inside S the indices below g are dropped.
\* S = {2,5}: g = 0 gives 0..5 and g = 8 gives 2..8.
C5_BridgeRange ==
    [][C5_BridgeStep =>
          /\ selected' = IF last'.g > Max(Elems(selected))
                         THEN Range(Min(Elems(selected)), last'.g + 1)
                         ELSE Range(last'.g, Max(Elems(selected)) + 1)
          /\ SelectedAfter(<<2, 5>>, 0, FALSE, TRUE) = <<0, 1, 2, 3, 4, 5>>
          /\ SelectedAfter(<<2, 5>>, 8, FALSE, TRUE) = <<2, 3, 4, 5, 6, 7, 8>>]_vars

\* C5 witness: a bridge click strictly inside the selection has kept only the
\* range from the clicked index to the old maximum.
C5_Witness ==
    /\ last.op = "select_item"
    /\ last.bridge
    /\ ~last.append
    /\ last.pre # <<>>
    /\ Min(Elems(last.pre)) < last.g
    /\ last.g < Max(Elems(last.pre))
    /\ selected = Range(last.g, Max(Elems(last.pre)) + 1)

\* ---------------------------------------------------------------------- C6

\* C6: a select_item step in append mode toggles the clicked index and keeps
\* every other member; appending the same index again gives back the set;
\* and the selection never holds an index twice.
C6_AppendToggles ==
    [][/\ NoDuplicates(selected) /\ NoDuplicates(selected')
       /\ (last'.op = "select_item" /\ last'.append) =>
             /\ Elems(selected') =
                   IF last'.g \in Elems(selected)
                   THEN Elems(selected) \ {last'.g}
                   ELSE Elems(selected) \cup {last'.g}
             /\ Elems(SelectedAfter(selected', last'.g, TRUE, FALSE))
                   = Elems(selected)]_vars

\* C6 witness: an append click has removed its index from a selection of
\* several, the others staying.
C6_Witness ==
    /\ last.op = "select_item"
    /\ last.append
    /\ last.g \in Elems(last.pre)
    /\ Len(last.pre) >= 2
    /\ Elems(selected) = Elems(last.pre) \ {last.g}

\* ---------------------------------------------------------------------- C7

\* C7: a select_item step with neither modifier, or with bridge on an empty
\* selection, leaves exactly the clicked index selected and every other thumb
\* displayed as not selected.
C7_PlainClickReplaces ==
    [][(/\ last'.op = "select_item"
        /\ ~last'.append
        /\ (~last'.bridge \/ selected = <<>>)) =>
          /\ selected' = <<last'.g>>
          /\ \A s \in Slots : item_thumbs'[s].selected = (s = last'.g)]_vars

\* C7 witness: a plain click has replaced a selection of several indices.
C7_Witness ==
    /\ last.op = "select_item"
    /\ ~last.append
    /\ ~last.bridge
    /\ Len(last.pre) >= 2
    /\ selected = <<last.g>>
    /\ \A s \in Slots : item_thumbs[s].selected = (s = last.g)

\* ---------------------------------------------------------------------- C8

\* The requested page clamped into [0, pages - 1], for pages >= 1.
C8_Clamped(target, pages) ==
    IF target < 0 THEN 0 ELSE IF target > pages - 1 THEN pages - 1 ELSE target

\* C8: a page_move step sets the page index to the target clamped into
\* [0, pages_count - 1], pages_count being the count at the call, when that
\* count is at least 1; with 3 pages, page 5 gives 2 and page -1 gives 0.
C8_PageMoveClamps ==
    [][(last'.op = "page_move" /\ pages_count >= 1) =>
          /\ filter'.page_index = C8_Clamped(last'.target, pages_count)
          /\ filter'.page_index \in 0..(pages_count - 1)
          /\ ClampPage(5, 3) = 2
          /\ ClampPage(-1, 3) = 0]_vars

\* C8 witness: a page_move beyond the last page of several has landed on the
\* last page.
C8_Witness ==
    /\ last.op = "page_move"
    /\ lib_open
    /\ pages_count >= 3
    /\ last.target > pages_count - 1
    /\ filter.page_index = pages_count - 1

\* ---------------------------------------------------------------------- C9

\* The state right after a filter_items call that ran to its end on an open
\* library.
AfterFilterItems ==
    /\ lib_open
    /\ last.op \in {"search", "refresh", "page_move", "open_library"}
    /\ ~Overflow(frame_content)

\* C9 as stated: after filter_items, pages_count is ceil(total / page_size) and
\* the page index lies in [0, max(0, pages_count - 1)].
C9_PageIndexInRange ==
    AfterFilterItems =>
        /\ pages_count = Ceil(SearchTotal(filter, lib_count), filter.page_size)
        /\ filter.page_index >= 0
        /\ filter.page_index <= Max({0, pages_count - 1})

\* --------------------------------------------------------------------- C10

\* The grid indices whose frame content holds an entry.
PopulatedIndices ==
    {i \in 0..(Len(frame_content) - 1) : frame_content[i + 1] # None}

\* C10 as stated: the selection is a subset of the populated grid indices.
C10_SelectionPopulated ==
    Elems(selected) \subseteq PopulatedIndices

\* --------------------------------------------------------------------- C11

\* C11 as stated: a search or page_move on an open library that puts a
\* different result window on the grid leaves the selection empty.
C11_SelectionResetByNewWindow ==
    [][(/\ lib_open
        /\ last'.op \in {"search", "page_move"}
        /\ frame_content' # frame_content) => selected' = <<>>]_vars

\* --------------------------------------------------------------------- C12

\* C12: in the queue, every placeholder job of a refresh stands before every
\* content job of the same refresh, and was put before it.
C12_PlaceholdersFirst ==
    \A i, k \in 1..Len(thumb_job_queue) :
        (/\ thumb_job_queue[i].kind = "job"
         /\ thumb_job_queue[k].kind = "job"
         /\ thumb_job_queue[i].refresh = thumb_job_queue[k].refresh
         /\ thumb_job_queue[i].loading
         /\ ~thumb_job_queue[k].loading)
        => (i < k /\ thumb_job_queue[i].n < thumb_job_queue[k].n)

\* C12 witness: the batch of a refresh over several populated slots is in the
\* queue: a placeholder for each and content jobs for each.
C12_Witness ==
    /\ Len(PopulatedSlots(frame_content)) >= 2
    /\ last.op \in {"search", "open_library", "page_move"}
    /\ \A s \in Elems(PopulatedSlots(frame_content)) :
          /\ \E i \in 1..Len(thumb_job_queue) :
                thumb_job_queue[i].slot = s /\ thumb_job_queue[i].loading
          /\ \E i \in 1..Len(thumb_job_queue) :
                thumb_job_queue[i].slot = s /\ ~thumb_job_queue[i].loading

\* --------------------------------------------------------------------- C14

\* The places of the queue holding a job for slot s with loading flag b.
JobsFor(s, b) ==
    {i \in 1..Len(thumb_job_queue) :
        /\ thumb_job_queue[i].kind = "job"
        /\ thumb_job_queue[i].slot = s
        /\ thumb_job_queue[i].loading = b}

\* C14 as stated: right after a refresh the queue holds, for each populated
\* slot, one placeholder job and one content job, nothing for an empty slot,
\* and so twice as many jobs as there are populated slots.
C14_TwoJobsPerSlot ==
    (lib_open /\ last.op \in {"search", "open_library", "page_move"}) =>
        /\ Len(thumb_job_queue) = 2 * Len(PopulatedSlots(frame_content))
        /\ \A s \in Slots :
              IF s \in Elems(PopulatedSlots(frame_content))
              THEN /\ Cardinality(JobsFor(s, TRUE)) = 1
                   /\ Cardinality(JobsFor(s, FALSE)) = 1
              ELSE JobsFor(s, TRUE) \cup JobsFor(s, FALSE) = {}

\* --------------------------------------------------------------------- C13

\* C13 as stated: when a content job of a refresh has been committed to its
\* slot, every placeholder job of that refresh whose render call did not
\* raise has been committed before.
C13_AllLoadingBeforeContent ==
    \A e \in events :
        (e.kind = "committed" /\ ~e.job.loading) =>
            \A j \in DOMAIN gets :
                (/\ j.refresh = e.job.refresh
                 /\ j.loading
                 /\ \A f \in EventsOf(j) : f.kind \in {"committed", "discarded"})
                => \E f \in EventsOf(j) : f.kind = "committed"

\* --------------------------------------------------------------------- C15

\* C15: the job a worker gets is the head of the queue; it was put by the
\* latest update_thumbs; every job put before it in that call has been got
\* and every job still pending was put after it.
C15_FifoAfterCancel ==
    [][\A j \in DOMAIN gets :
          gets'[j] # gets[j] =>
              /\ j = Head(thumb_job_queue)
              /\ j.refresh = gen
              /\ \A k \in DOMAIN gets :
                    (k.refresh = j.refresh /\ k.n < j.n) => gets[k] = 1
              /\ \A k \in PendingJobs' : k.n > j.n]_vars

\* C15 witness: after a refresh cleared pending jobs, the third job of the
\* next refresh has been got.
C15_Witness ==
    /\ cleared # {}
    /\ \E j \in DOMAIN gets : j.refresh = 2 /\ j.n = 3 /\ gets[j] = 1

\* --------------------------------------------------------------------- C16

MarkersQueued ==
    Cardinality({i \in 1..Len(thumb_job_queue) :
                    thumb_job_queue[i] = MARKER_QUIT})

DoneWorkers == {w \in Workers : wstate[w] = "done"}

\* The shutdown() calls begun so far.
ShutdownsBegun ==
    shutdowns + (IF ctl \in {"join_sigterm", "join_exit"} THEN 1 ELSE 0)

\* C16: a shutdown() that has begun returns; as long as no worker has died,
\* the terminators consumed (one per exited worker) and the terminators in
\* the queue add up to N per call begun, no two go to one worker, and once a
\* call has returned all N workers have exited.
C16_ShutdownTerminates ==
    /\ [](((\A w \in Workers : wstate[w] # "dead") /\ ShutdownsBegun >= 1) =>
            /\ MarkersQueued + Cardinality(DoneWorkers)
                  = thumb_threads * ShutdownsBegun
            /\ shutdowns >= 1 => Cardinality(DoneWorkers) = thumb_threads)
    /\ (ctl \in {"join_sigterm", "join_exit"}) ~> (ctl \in {"quitting", "exited"})

\* C16 witness: the first shutdown() has returned with N workers started, a
\* render call made, every worker exited and no terminator left over.
C16_Witness ==
    /\ shutdowns = 1
    /\ thumb_threads = NumWorkers
    /\ DoneWorkers = Workers
    /\ MarkersQueued = 0
    /\ events # {}

\* --------------------------------------------------------------------- C17

\* The badges an entry with these tag ids is to show.
C17_Expected(tag_ids) ==
    {b \in {"ARCHIVED", "FAVORITE"} :
        \/ b = "ARCHIVED" /\ "archived" \in tag_ids
        \/ b = "FAVORITE" /\ "favorite" \in tag_ids}

\* A step of update_thumbs (alone or inside filter_items) or of update_badges.
C17_BadgePass ==
    last'.op \in {"update_badges", "thumb_size", "refresh", "open_library"}

\* C17 as stated: after a render pass or an update_badges call every populated
\* slot shows the archived and the favorite badge exactly when the entry's tag
\* ids hold the archived and the favorite tag id.
C17_StatedAllSlotsCurrent ==
    [][C17_BadgePass =>
          \A s \in Elems(PopulatedSlots(frame_content')) :
              item_thumbs'[s].badges
                 = C17_Expected(entry_tags'[frame_content'[s + 1]])]_vars

\* C17 amended: after a render pass, and after update_badges for the grid
\* indices it was given (all of them when it was given none), a populated
\* slot shows each badge exactly when the entry's tag ids hold its tag id,
\* whatever it showed before; update_badges leaves the other slots as they
\* were.
C17_RefreshedSlotsCurrent ==
    [][C17_BadgePass =>
          \A s \in Elems(PopulatedSlots(frame_content')) :
              IF last'.op = "update_badges" /\ last'.ids # {} /\ s \notin last'.ids
              THEN item_thumbs'[s].badges = item_thumbs[s].badges
              ELSE item_thumbs'[s].badges
                      = C17_Expected(entry_tags'[frame_content'[s + 1]])]_vars

\* C17 witness: update_badges was given slot 1 only, whose badge went with its
\* entry's tag, while slot 0 still shows a badge its entry has lost.
C17_Witness ==
    /\ last.op = "update_badges"
    /\ last.ids = {1}
    /\ Len(frame_content) = 2
    /\ entry_tags[frame_content[2]] = {}
    /\ item_thumbs[1].badges = {}
    /\ entry_tags[frame_content[1]] = {"other"}
    /\ item_thumbs[0].badges = {"ARCHIVED"}

\* --------------------------------------------------------------------- C18

\* C18: the recent-libraries list holds at most 5 paths, none twice, and
\* right after a library was opened its path is the one with the latest key.
C18_RecentLibraries ==
    /\ Len(libs_list) <= 5
    /\ NoDuplicates(libs_list)
    /\ last.op = "open_library" =>
          /\ libs_list # <<>>
          /\ libs_list[Len(libs_list)] = last.path

\* C18 witness: the list is full and the library opened last, which was not
\* the one opened before it, is the most recent of the five.
C18_Witness ==
    /\ Len(libs_list) = 5
    /\ last.op = "open_library"
    /\ libs_list[5] = last.path
    /\ last.path = "p7"
    /\ libs_list[1] = "p3"

\* --------------------------------------------------------------------- C19

\* C19 as stated: an update_thumbs that runs after a shutdown() has returned
\* puts no job in the queue.
C19_LateSubmitIsNoOp ==
    [][(shutdowns >= 1 /\ last'.op = "thumb_size") => PendingJobs' = {}]_vars

\* --------------------------------------------------------------------- C20

\* C20: a failed open leaves the workers, the queue, the grid content, the
\* selection, the filter and the recent-libraries list as they were; only the
\* message is shown.
C20_FailedOpenChangesNothing ==
    [][last'.op = "open_failed" =>
          /\ UNCHANGED <<thumb_threads, wstate, thumb_job_queue>>
          /\ UNCHANGED <<frame_content, selected, filter, pages_count,
                         item_thumbs>>
          /\ UNCHANGED <<lib_open, lib_count, libs_list>>]_vars

\* C20 witness: an open has failed while a library was open with a selection
\* on its grid.
C20_Witness ==
    /\ last.op = "open_failed"
    /\ lib_open
    /\ selected # <<>>
    /\ frame_content # <<>>
    /\ thumb_job_queue # <<>>
    /\ libs_list # <<>>

\* ---------------------------------------------------------------------------
\* C21: thumb_size_callback with an index outside the size table (negative, or
\* at or past its length) sets the thumbnail size to the default 128 and goes
\* on to the re-render; with an index inside the table it sets the size to
\* that entry of the table: 256, 192, 128, 96, 76.
C21_SizeFromTableOrDefault ==
    [][last'.op = "thumb_size" =>
          /\ (last'.g < 0 \/ last'.g >= 5) => thumb_size' = 128
          /\ last'.g = 0 => thumb_size' = 256
          /\ last'.g = 1 => thumb_size' = 192
          /\ last'.g = 2 => thumb_size' = 128
          /\ last'.g = 3 => thumb_size' = 96
          /\ last'.g = 4 => thumb_size' = 76
          /\ update_cutoff' = now
          /\ thumb_job_queue' = BatchJobs(frame_content, gen', now)]_vars

\* An index past the table arrived while a page was shown at another size:
\* the size is 128 and the batch is queued.
C21_Witness ==
    /\ last.op = "thumb_size"
    /\ last.g = Len(ThumbSizes)
    /\ thumb_size = DefaultThumbSize
    /\ Len(thumb_job_queue) >= NumSlots

\* ---------------------------------------------------------------------------
\* C22: run_macro with AUTOFILL on an entry calls run_macro once for each of
\* the other macros, in the order MacroID declares them, and never with
\* AUTOFILL again; run_macro with any other macro calls no further macro. The
\* Autofill action does this for each selected index in turn.
C22_Order == <<"AUTOFILL", "SIDECAR", "BUILD_URL", "MATCH", "CLEAN_URL">>

C22_CallsOf(calls, gid) == SelectSeq(calls, LAMBDA c : c.gid = gid)

C22_MacrosOf(calls) == [i \in 1..Len(calls) |-> calls[i].macro]

C22_AutofillOnceEach ==
    /\ \A gid \in Slots :
          /\ C22_MacrosOf(RunMacro("AUTOFILL", gid)) = C22_Order
          /\ \A i \in 1..5 : RunMacro("AUTOFILL", gid)[i].gid = gid
          /\ \A name \in Elems(C22_Order) \ {"AUTOFILL"} :
                RunMacro(name, gid) = <<[macro |-> name, gid |-> gid]>>
    /\ last.op = "run_macros" =>
          \A k \in 1..Len(last.pre) :
              C22_MacrosOf(C22_CallsOf(last.calls, last.pre[k])) =
                  IF \E i \in 1..k : ~HasEntry(last.pre[i])
                  THEN <<>>
                  ELSE IF last.name = "AUTOFILL" THEN C22_Order ELSE <<last.name>>

\* Autofill ran over a selection of two entries: ten calls.
C22_Witness ==
    /\ last.op = "run_macros"
    /\ last.name = "AUTOFILL"
    /\ Len(last.pre) >= 2
    /\ Len(last.calls) = 5 * Len(last.pre)

\* ---------------------------------------------------------------------------
\* C26: thumb_size_callback re-renders: the queue it leaves holds the new
\* batch for the entries shown and nothing that was pending before, while the
\* filter (query, page index, page size), the frame content, the page count
\* and the selection are what they were.
C26_ReRenderOnly ==
    [][last'.op = "thumb_size" =>
          /\ filter' = filter
          /\ lib_page_size' = lib_page_size
          /\ frame_content' = frame_content
          /\ pages_count' = pages_count
          /\ selected' = selected
          /\ thumb_job_queue' = BatchJobs(frame_content', gen', now')]_vars

\* The size changed on the second page with entries selected.
C26_Witness ==
    /\ last.op = "thumb_size"
    /\ filter.page_index = 1
    /\ selected # <<>>
    /\ thumb_size # DefaultThumbSize
    /\ thumb_job_queue # <<>>

\* ---------------------------------------------------------------------------
\* C23: right after filter_items on an open library (search, refresh,
\* page_move, or the one init_library runs) the queue holds only jobs of this
\* call: each stands for a slot the new frame content populates, a content job
\* carries the entry that is there now, and nothing put by an earlier
\* update_thumbs is left.
C23_OnlyNewWindowJobs ==
    [][(/\ lib_open'
        /\ last'.op \in {"search", "refresh", "page_move", "open_library"}) =>
          \A i \in 1..Len(thumb_job_queue') :
              LET j == thumb_job_queue'[i]
              IN  j.kind = "job" =>
                    /\ j.slot < Len(frame_content')
                    /\ frame_content'[j.slot + 1] # None
                    /\ ~j.loading => j.entry = frame_content'[j.slot + 1]
                    /\ tracing => j.refresh = gen']_vars

\* page_move put the second page on the grid and its jobs in the queue.
C23_Witness ==
    /\ lib_open
    /\ last.op = "page_move"
    /\ filter.page_index = 1
    /\ thumb_job_queue # <<>>
    /\ \E i \in 1..Len(thumb_job_queue) :
          ~thumb_job_queue[i].loading /\ thumb_job_queue[i].entry > filter.page_size

\* ---------------------------------------------------------------------------
\* C24: a job put by the latest update_thumbs has a timestamp at or above the
\* cutoff that call set, placeholder or content, so it is not stale; the only
\* render calls ever discarded are those of jobs put before a later
\* update_thumbs.
C24_FreshJobsNeverStale ==
    /\ \A j \in DOMAIN gets : j.refresh = gen => ~Stale(j, update_cutoff)
    /\ \A e \in events : e.kind = "discarded" => e.late

\* After the clock moved and a second update_thumbs raised the cutoff, a
\* content job of that refresh was rendered and committed.
C24_Witness ==
    /\ gen = 2
    /\ update_cutoff > 0
    /\ \E e \in events :
          /\ e.kind = "committed"
          /\ ~e.job.loading
          /\ e.job.refresh = gen
          /\ e.job.ts = update_cutoff

\* ---------------------------------------------------------------------------
\* C25 as stated: after a render pass (the update_thumbs of a search, a
\* refresh or a page move on an open library) each populated slot is shown
\* selected exactly when its grid index is in self.selected.
C25_SelectionBordersRestored ==
    [][(/\ lib_open'
        /\ last'.op \in {"search", "refresh", "page_move"}
        /\ ~Overflow(frame_content')) =>
          \A s \in Slots :
              (s < Len(frame_content') /\ frame_content'[s + 1] # None) =>
                  (item_thumbs'[s].selected <=> s \in Elems(selected'))]_vars

\* ---------------------------------------------------------------------------
\* C27: close_library from the menu with a library open leaves no library
\* open, an empty frame content, an empty selection, every thumb without a
\* mode and an empty queue; with no library open it changes nothing.
C27_CloseLibraryEmpties ==
    [][last'.op = "close_library" =>
          IF lib_open
          THEN /\ ~lib_open'
               /\ frame_content' = <<>>
               /\ selected' = <<>>
               /\ \A s \in Slots : item_thumbs'[s].mode = "None"
               /\ thumb_job_queue' = <<>>
               /\ PendingJobs' = {}
          ELSE UNCHANGED <<libVars, gridVars, queueVars, workerVars, now,
                           thumb_size, ctl, shutdowns>>]_vars

\* A library of two pages was closed from its second page: the filter still
\* names that page, and the grid and the queue are empty.
C27_Witness ==
    /\ last.op = "close_library"
    /\ ~lib_open
    /\ filter.page_index = 1
    /\ pages_count = 2
    /\ frame_content = <<>>
    /\ thumb_job_queue = <<>>

\* ---------------------------------------------------------------------------
\* C28: the number of Consumer threads is 0 or the pool size; it changes only
\* once, from 0 to the pool size, in the init_workers of a successful open;
\* later opens and closes leave the pool as it is and a failed open starts
\* no thread. All of them were given the one queue self.thumb_job_queue.
C28_FixedPool ==
    [][/\ thumb_threads' \in {0, NumWorkers}
       /\ thumb_threads' # thumb_threads =>
             /\ thumb_threads = 0
             /\ thumb_threads' = NumWorkers
             /\ last'.op = "open_library"
             /\ lib_open'
       /\ (last'.op = "open_library" /\ thumb_threads = 0) =>
             thumb_threads' = NumWorkers
       /\ last'.op \in {"open_failed", "close_library"} =>
             /\ thumb_threads' = thumb_threads
             /\ wstate' = wstate]_vars

\* A library was opened and closed, and a later open failed: the pool is
\* the one of the first open.
C28_Witness ==
    /\ last.op = "open_failed"
    /\ ~lib_open
    /\ libs_list # <<>>
    /\ thumb_threads = NumWorkers

\* ---------------------------------------------------------------------------
\* C30 as stated: once every job of the latest refresh has been rendered and
\* committed, with nothing pending or in flight and no render call of an
\* earlier refresh having come back late, every populated slot shows its
\* content and not the loading placeholder.
C30_ContentShownWhenDone ==
    (/\ lib_open
     /\ gen >= 1
     /\ PendingJobs = {}
     /\ RunningJobs = {}
     /\ \A e \in events : ~e.late /\ e.kind \in {"committed", "discarded"}
     /\ \A j \in DOMAIN gets :
           j.refresh = gen => \E e \in EventsOf(j) : e.kind = "committed")
    => \A s \in Slots :
          (s < Len(frame_content) /\ frame_content[s + 1] # None) =>
              item_thumbs[s].icon.kind = "content"

\* ---------------------------------------------------------------------------
\* C29 as stated: Loading leads to Idle. While the control thread stays in its
\* event loop, jobs left in the queue by a refresh are followed, under fair
\* scheduling of the Consumers and with every render call returning or
\* raising, by an empty queue with no job in flight (or by a shutdown, which
\* is a further user action).
C29_LoadingLeadsToIdle ==
    (ctl = "loop" /\ PendingJobs # {}) ~>
        (ctl # "loop" \/ (PendingJobs = {} /\ RunningJobs = {}))

\* ---------------------------------------------------------------------------
\* C31 as stated: on a fixed result window the selection handlers keep the
\* thumbs shown selected equal to the selection: a select_item (plain, append
\* or bridge), select_all or clear-selection call that starts with the two
\* equal, and the selection inside the window, ends with them equal, also
\* when a bridge click drops indices.
C31_ShownSelected == {s \in Slots : item_thumbs[s].selected}

C31_DisplayMatchesSelection ==
    [][(/\ last'.op \in {"select_item", "select_all", "clear_select"}
        /\ C31_ShownSelected = Elems(selected)
        /\ \A s \in Elems(selected) : s < Len(frame_content)) =>
          C31_ShownSelected' = Elems(selected')]_vars

\* ---------------------------------------------------------------------------
\* C32 as stated: whatever the page-size preference of the opened library,
\* the frame content is never longer than the grid, so update_thumbs never
\* pairs an entry with a missing thumb.
C32_ResultsFitGrid ==
    /\ Len(frame_content) <= NumSlots
    /\ ~Overflow(frame_content)

\* ---------------------------------------------------------------------------
\* C33 as stated: once close_library (not the one of a shutdown) has returned
\* and no library is open, no render call commits a result to the grid, and
\* no job is pending.
C33_NoCommitAfterClose ==
    [][(~lib_open' /\ ctl' = "loop") =>
          /\ PendingJobs' = {}
          /\ \A e \in events' \ events : e.kind # "committed"]_vars

\* ---------------------------------------------------------------------------
\* C34 as stated: while a library is open, the filter's page size is the
\* library's page-size preference; a search and a page move leave it so, and
\* a page move leaves the query as it was.
C34_PageSizeIsLibraryPref ==
    [][/\ lib_open' => filter'.page_size = lib_page_size'
       /\ last'.op = "page_move" => filter'.query = filter.query]_vars

\* ---------------------------------------------------------------------------
\* C35 as stated: with no library open, filter_items (from a search or a
\* refresh) and page_move change nothing: filter, frame content, page count,
\* selection, thumbs, queue and cutoff are what they were.
C35_NoLibraryNoOp ==
    [][(/\ ~lib_open
        /\ last'.op \in {"search", "refresh", "page_move"}) =>
          UNCHANGED <<filter, frame_content, pages_count, selected,
                      item_thumbs, thumb_job_queue, update_cutoff>>]_vars

====
